---- MODULE Spec2Model ----
(***************************************************************************)
(* Model of server.js: the in-memory question bank, the spreadsheet        *)
(* upload handler, the question generator and the image proxy.            *)
(*                                                                         *)
(* JavaScript strings that the code parses or rewrites (the "Unit" and     *)
(* "B.T Level" cells, image URLs) are sequences of one-character strings,  *)
(* so that trim, replace, parseInt and the URL rewrite are computed and    *)
(* not assumed.  Text the code only passes through (the question text) is  *)
(* an atom.  A handler of the single-threaded server runs to completion:   *)
(* while pc # "idle" only the running generate request takes steps.        *)
(***************************************************************************)
EXTENDS Integers, Sequences, FiniteSets

VARIABLES
    questionBank,        \* server.js:45  Null or the sequence of question records
    lastData,            \* history: jsonData of the last upload that assigned the bank
    superseded,          \* history: the last assignment dropped a record of the bank before it
    uploads,             \* history: number of upload requests served
    pc,                  \* position of the running generate request
    request,             \* the request being served, or the last one served
    reqIdx,              \* index into btlReqs of the quota item being processed
    count,               \* selectQuestions: let count
    randomBTLs,          \* selectQuestions: const randomBTLs
    selectedQuestions,   \* selectQuestions: let selectedQuestions
    unitCount,           \* selectQuestions: let unitCount
    btlCount,            \* selectQuestions: let btlCount
    remainingQuestions,  \* selectQuestions: let remainingQuestions
    response             \* the last response sent

vars == <<questionBank, lastData, superseded, uploads, pc, request, reqIdx, count,
          randomBTLs, selectedQuestions, unitCount, btlCount, remainingQuestions,
          response>>

\* the bank and its history
bankVars == <<questionBank, lastData, superseded, uploads>>

\* the variables of a running generateQuestions call
locals == <<reqIdx, count, randomBTLs, selectedQuestions, unitCount,
            btlCount, remainingQuestions>>

Null == "null"

----------------------------------------------------------------------------
(* Sequences and strings *)

Range(s) == {s[i] : i \in 1..Len(s)}

RECURSIVE Dedupe(_)
\* insertion order of a JavaScript Set filled from the sequence s
Dedupe(s) ==
    IF s = <<>> THEN <<>>
    ELSE LET init == Dedupe(SubSeq(s, 1, Len(s) - 1))
             last == s[Len(s)]
         IN IF last \in Range(init) THEN init ELSE Append(init, last)

WhiteSpace == {" "}

DigitChars == {"0", "1", "2", "3", "4", "5", "6", "7", "8", "9"}

DigitVal(c) ==
    CASE c = "0" -> 0 [] c = "1" -> 1 [] c = "2" -> 2 [] c = "3" -> 3 [] c = "4" -> 4
      [] c = "5" -> 5 [] c = "6" -> 6 [] c = "7" -> 7 [] c = "8" -> 8 [] c = "9" -> 9

RECURSIVE TrimStart(_)
TrimStart(s) ==
    IF s # <<>> /\ Head(s) \in WhiteSpace THEN TrimStart(Tail(s)) ELSE s

RECURSIVE TrimEnd(_)
TrimEnd(s) ==
    IF s # <<>> /\ s[Len(s)] \in WhiteSpace THEN TrimEnd(SubSeq(s, 1, Len(s) - 1)) ELSE s

\* String.prototype.trim
Trim(s) == TrimEnd(TrimStart(s))

\* btLevelRaw.replace(/^L/i, '')
StripLPrefix(s) ==
    IF s # <<>> /\ Head(s) \in {"L", "l"} THEN Tail(s) ELSE s

RECURSIVE DigitsValue(_, _)
\* value of the longest prefix of decimal digits of s, continuing from acc
DigitsValue(s, acc) ==
    IF s # <<>> /\ Head(s) \in DigitChars
    THEN DigitsValue(Tail(s), 10 * acc + DigitVal(Head(s)))
    ELSE acc

\* parseInt(s) || 0: leading white space is skipped, an optional sign is read,
\* then the longest prefix of digits; NaN (no digit) and 0 both give 0
ParseIntOr0(s) ==
    LET t == TrimStart(s)
        neg == t # <<>> /\ Head(t) = "-"
        u == IF t # <<>> /\ Head(t) \in {"-", "+"} THEN Tail(t) ELSE t
    IN IF u = <<>> \/ Head(u) \notin DigitChars THEN 0
       ELSE IF neg THEN 0 - DigitsValue(u, 0) ELSE DigitsValue(u, 0)

----------------------------------------------------------------------------
(* Image URLs.  A URL is the sequence of its segments between "/". *)

DriveHost == "drive.google.com"

\* segments that start with "view"
ViewSegments == {"view", "view?usp=sharing"}

\* the segments i..i+6 of url match
\* https:\/\/drive\.google\.com\/file\/d\/([^/]+)\/view
DriveMatchAt(url, i) ==
    /\ i + 6 <= Len(url)
    /\ url[i] = "https:" /\ url[i + 1] = "" /\ url[i + 2] = DriveHost
    /\ url[i + 3] = "file" /\ url[i + 4] = "d" /\ url[i + 5] # ""
    /\ url[i + 6] \in ViewSegments

getDirectImageURL(url) ==
    IF \E i \in 1..Len(url) : DriveMatchAt(url, i)
    THEN LET i == CHOOSE j \in 1..Len(url) :
                      /\ DriveMatchAt(url, j)
                      /\ \A k \in 1..(j - 1) : ~DriveMatchAt(url, k)
         IN <<"https:", "", DriveHost, "uc?export=view&id=", url[i + 5]>>
    ELSE url

----------------------------------------------------------------------------
(* Row normalisation *)

\* String(row['B.T Level'] || '').trim(), then the "L" prefix removed, then || '0'
BtLevelOf(raw) ==
    LET btLevel == StripLPrefix(Trim(raw))
    IN IF btLevel = <<>> THEN <<"0">> ELSE btLevel

\* the record the map callback of processExcelData builds for row number index + 1
MapRow(row, id) ==
    [id |-> id,
     unit |-> ParseIntOr0(row.Unit),
     question |-> row.Question,
     btLevel |-> BtLevelOf(row.BTLevel),
     imageUrl |-> IF row.ImageUrl = <<>> THEN <<>> ELSE getDirectImageURL(row.ImageUrl)]

\* faulty variant: the filter forgets the level test
KeepRowUnitOnly(q) == q.unit >= 1 /\ q.unit <= 5

\* the filter callback of processExcelData
KeepRow(q) == q.unit >= 1 /\ q.unit <= 5 /\ q.btLevel # <<"0">>

processExcelData(data) ==
    SelectSeq([i \in 1..Len(data) |-> MapRow(data[i], i)], KeepRow)

----------------------------------------------------------------------------
(* generateQuestions: availability index, scheme and unit requirements *)

Units == 1..5

\* availableByUnitAndBTL[unit][btl], the empty sequence where the code has undefined
availableByUnitAndBTL(bank, unit, btl) ==
    SelectSeq(bank, LAMBDA q : q.unit = unit /\ q.btLevel = btl)

RECURSIVE LabelsOfUnits(_, _)
\* the labels in the order the loop over units 1..5 adds them to availableBTLs
LabelsOfUnits(bank, unit) ==
    IF unit > 5 THEN <<>>
    ELSE LET ofUnit == SelectSeq(bank, LAMBDA q : q.unit = unit)
         IN [i \in 1..Len(ofUnit) |-> ofUnit[i].btLevel] \o LabelsOfUnits(bank, unit + 1)

availableBTLs(bank) == Dedupe(LabelsOfUnits(bank, 1))

\* questionBank.map(q => parseInt(q.btLevel) || 0).filter(btl => btl > 0)
btLevels(bank) ==
    SelectSeq([i \in 1..Len(bank) |-> ParseIntOr0(bank[i].btLevel)], LAMBDA btl : btl > 0)

\* Math.max(...btLevels), for a non-empty btLevels
maxBTL(bank) ==
    CHOOSE m \in Range(btLevels(bank)) : \A n \in Range(btLevels(bank)) : n <= m

\* the level label 'random' of the choose-from-set quota item
RandomLevel == <<"r", "a", "n", "d", "o", "m">>

\* undefined, where the code expects an array
Undefined == <<>>

FixedReq(level, n) == [level |-> level, options |-> Undefined, count |-> n]

\* faulty variant: the quotas of maximum level 6 lack the choose-from-set item
btlRequirementsNoRandom(bank) ==
    IF maxBTL(bank) \in {4, 6}
    THEN <<FixedReq(<<"2">>, 2), FixedReq(<<"3">>, 2), FixedReq(<<"4">>, 2)>>
    ELSE IF Len(availableBTLs(bank)) = 1
    THEN <<FixedReq(availableBTLs(bank)[1], 6)>>
    ELSE Undefined

\* faulty variant: the final else branch falls back to the quotas of maximum level 4
btlRequirementsLenient(bank) ==
    IF maxBTL(bank) = 6
    THEN <<FixedReq(<<"2">>, 2), FixedReq(<<"3">>, 2), FixedReq(<<"4">>, 1),
           [level |-> RandomLevel, options |-> <<(<<"1">>), (<<"5">>), (<<"6">>)>>, count |-> 1]>>
    ELSE IF Len(availableBTLs(bank)) = 1
    THEN <<FixedReq(availableBTLs(bank)[1], 6)>>
    ELSE <<FixedReq(<<"2">>, 2), FixedReq(<<"3">>, 2), FixedReq(<<"4">>, 2)>>

\* Step 3; Undefined stands for the throw of the final else branch
btlRequirements(bank) ==
    IF maxBTL(bank) = 6
    THEN <<FixedReq(<<"2">>, 2), FixedReq(<<"3">>, 2), FixedReq(<<"4">>, 1),
           [level |-> RandomLevel, options |-> <<(<<"1">>), (<<"5">>), (<<"6">>)>>, count |-> 1]>>
    ELSE IF maxBTL(bank) = 4
    THEN <<FixedReq(<<"2">>, 2), FixedReq(<<"3">>, 2), FixedReq(<<"4">>, 2)>>
    ELSE IF Len(availableBTLs(bank)) = 1
    THEN <<FixedReq(availableBTLs(bank)[1], 6)>>
    ELSE Undefined

UnitReq(unit, minCount, maxCount) ==
    [unit |-> unit, minCount |-> minCount, maxCount |-> maxCount]

\* Step 4; Undefined stands for the throw of the default branch
unitRequirements(pt) ==
    CASE pt = "mid1" -> <<UnitReq(1, 2, 3), UnitReq(2, 2, 3), UnitReq(3, 1, 1)>>
      [] pt = "mid2" -> <<UnitReq(4, 2, 3), UnitReq(5, 2, 3), UnitReq(3, 1, 1)>>
      [] pt = "special" -> <<UnitReq(1, 1, 2), UnitReq(2, 1, 2), UnitReq(3, 1, 2),
                            UnitReq(4, 1, 2), UnitReq(5, 1, 2)>>
      [] OTHER -> Undefined

\* unitReqs.find(r => r.unit === unit), for a participating unit
FindReq(unitReqs, unit) ==
    unitReqs[CHOOSE i \in 1..Len(unitReqs) : unitReqs[i].unit = unit]

\* btlCount[btl] || 0
CountOf(counts, btl) == IF btl \in DOMAIN counts THEN counts[btl] ELSE 0

\* unitCount[a] - unitReqs.find(r => r.unit === a).minCount
Diff(unitReqs, uc, unit) == uc[unit] - FindReq(unitReqs, unit).minCount

RECURSIVE SortByDiff(_, _, _)
\* Array.prototype.sort with the comparator aDiff - bDiff (a stable sort)
SortByDiff(us, unitReqs, uc) ==
    IF us = <<>> THEN <<>>
    ELSE LET init == SortByDiff(SubSeq(us, 1, Len(us) - 1), unitReqs, uc)
             last == us[Len(us)]
             keep == {i \in 1..Len(init) :
                        Diff(unitReqs, uc, init[i]) <= Diff(unitReqs, uc, last)}
             k == Cardinality(keep)
         IN SubSeq(init, 1, k) \o <<last>> \o SubSeq(init, k + 1, Len(init))

\* pickQuestion: const allowedUnits
allowedUnits(unitReqs, uc) ==
    SortByDiff([i \in 1..Len(unitReqs) |-> unitReqs[i].unit], unitReqs, uc)

\* faulty variant: the filter forgets the test against maxCount
availableNoMax(btl, remaining, unitReqs, uc) ==
    SelectSeq(remaining, LAMBDA q :
        /\ q.unit \in Range(allowedUnits(unitReqs, uc))
        /\ q.btLevel = btl)

\* pickQuestion: const available
available(btl, remaining, unitReqs, uc) ==
    SelectSeq(remaining, LAMBDA q :
        /\ q.unit \in Range(allowedUnits(unitReqs, uc))
        /\ q.btLevel = btl
        /\ uc[q.unit] < FindReq(unitReqs, q.unit).maxCount)

\* the filter that computes randomBTLs from req.options
feasibleRandomBTLs(options, bank, unitReqs, counts) ==
    SelectSeq(options, LAMBDA btl :
        \E i \in 1..Len(unitReqs) :
            Len(availableByUnitAndBTL(bank, unitReqs[i].unit, btl)) > CountOf(counts, btl))

RECURSIVE availableCount(_, _, _, _)
\* unitReqs.reduce((sum, u) => sum + (length || 0) - (btlCount[level] || 0), 0)
availableCount(level, bank, unitReqs, counts) ==
    IF unitReqs = <<>> THEN 0
    ELSE availableCount(level, bank, SubSeq(unitReqs, 1, Len(unitReqs) - 1), counts)
         + Len(availableByUnitAndBTL(bank, unitReqs[Len(unitReqs)].unit, level))
         - CountOf(counts, level)

\* the first unit requirement the validation loop finds unmet, as a set (empty: none)
unmetUnits(unitReqs, uc) ==
    {i \in 1..Len(unitReqs) :
        /\ uc[unitReqs[i].unit] < unitReqs[i].minCount
        /\ \A j \in 1..(i - 1) : uc[unitReqs[j].unit] >= unitReqs[j].minCount}

----------------------------------------------------------------------------
(* Inputs *)

\* the number of upload requests a behaviour contains
MaxUploads == 2

Row(unit, level, question) ==
    [Unit |-> unit, BTLevel |-> level, Question |-> question, ImageUrl |-> <<>>]

DriveShareUrl == <<"https:", "", DriveHost, "file", "d", "ID1", "view?usp=sharing">>

PlainUrl == <<"https:", "", "example.org", "a.png">>

\* units 1, 2, 3 with levels up to 6
SheetMid1 ==
    <<Row(<<"1">>, <<"L", "2">>, "a1"), Row(<<"2">>, <<"L", "2">>, "a2"),
      Row(<<"1">>, <<"L", "3">>, "a3"), Row(<<"2">>, <<"l", "3">>, "a4"),
      Row(<<"3">>, <<"4">>, "a5"), Row(<<"1">>, <<"L", "6">>, "a6"),
      [Row(<<"2">>, <<" ", "5", " ">>, "a7") EXCEPT !.ImageUrl = DriveShareUrl]>>

\* units 3, 4, 5 with levels up to 4
SheetMid2 ==
    <<Row(<<"4">>, <<"2">>, "b1"), Row(<<"5">>, <<"2">>, "b2"),
      Row(<<"4">>, <<"3">>, "b3"), Row(<<"5">>, <<"3">>, "b4"),
      Row(<<"3">>, <<"4">>, "b5"), Row(<<"4">>, <<"4">>, "b6"),
      Row(<<"5">>, <<"4">>, "b7")>>

\* units 1..5 with levels up to 4, and two rows the normaliser drops
SheetSpecial ==
    <<Row(<<"1">>, <<"L", "2">>, "c1"), Row(<<"6">>, <<"L", "2">>, "c2"),
      Row(<<"2", ".", "5">>, <<"L", "2">>, "c3"), Row(<<"3">>, <<"L", "3">>, "c4"),
      Row(<<" ", "4">>, <<"L", "3">>, "c5"), Row(<<"1">>, <<>>, "c6"),
      Row(<<"5">>, <<"L", "4">>, "c7"),
      [Row(<<"1">>, <<"L", "4">>, "c8") EXCEPT !.ImageUrl = PlainUrl]>>

\* five questions of one level
SheetSingle ==
    <<Row(<<"1">>, <<"5">>, "d1"), Row(<<"1">>, <<"5">>, "d2"),
      Row(<<"2">>, <<"5">>, "d3"), Row(<<"2">>, <<"5">>, "d4"),
      Row(<<"2">>, <<"L", "5">>, "d5")>>

\* both questions of level 2 in unit 3
SheetUnit3 ==
    <<Row(<<"3">>, <<"2">>, "e1"), Row(<<"3">>, <<"2">>, "e2"),
      Row(<<"1">>, <<"3">>, "e3"), Row(<<"2">>, <<"3">>, "e4"),
      Row(<<"1">>, <<"4">>, "e5"), Row(<<"2">>, <<"4">>, "e6")>>

\* five questions of levels 2, 3 and 4
SheetSmall ==
    <<Row(<<"1">>, <<"2">>, "f1"), Row(<<"2">>, <<"2">>, "f2"),
      Row(<<"1">>, <<"3">>, "f3"), Row(<<"2">>, <<"3">>, "f4"),
      Row(<<"3">>, <<"4">>, "f5")>>

\* two questions of levels 2 and 5
SheetTwo == <<Row(<<"1">>, <<"2">>, "h1"), Row(<<"2">>, <<"5">>, "h2")>>

\* six questions whose level labels are not positive integers
SheetNoLevel ==
    <<Row(<<"1">>, <<"0", "0">>, "g1"), Row(<<"2">>, <<"a">>, "g2"),
      Row(<<"3">>, <<"0", "0">>, "g3"), Row(<<"1">>, <<"a">>, "g4"),
      Row(<<"2">>, <<"L", "L">>, "g5"), Row(<<"3">>, <<"-", "1">>, "g6")>>

BaseSheets ==
    {<<>>, SheetMid1, SheetMid2, SheetSpecial, SheetSingle, SheetUnit3, SheetSmall,
     SheetTwo, SheetNoLevel}

ExtraRows ==
    {Row(<<"1">>, <<"L", "2">>, "x1"), Row(<<"2">>, <<"L", "4">>, "x2"),
     Row(<<"3">>, <<"2">>, "x3"), Row(<<"4">>, <<"6">>, "x4"),
     Row(<<"6">>, <<"3">>, "x5"), Row(<<"x">>, <<"2">>, "x6"),
     Row(<<"1">>, <<"L", "0">>, "x7"), Row(<<"2">>, <<"0", "0">>, "x8"),
     Row(<<"3">>, <<"a">>, "x9"), Row(<<"3">>, <<"5">>, "x10")}

\* the jsonData an upload can carry: a base spreadsheet, or one with a row appended
Sheets == BaseSheets \cup {Append(base, row) : base \in BaseSheets, row \in ExtraRows}

\* paperType tokens of a generate request; "final" is not a paper type
PaperTypes == {"mid1", "mid2", "special", "final"}

\* url query values of the image proxy; the empty one stands for a missing url
Urls == {<<>>, DriveShareUrl, PlainUrl}

\* what axios.get does: reject, or resolve with a content-type header or none
FetchOutcomes ==
    {[ok |-> FALSE, contentType |-> <<>>],
     [ok |-> TRUE, contentType |-> <<"image", "png">>],
     [ok |-> TRUE, contentType |-> <<"text", "html">>],
     [ok |-> TRUE, contentType |-> <<>>]}

----------------------------------------------------------------------------
(* Responses *)

NoError == [text |-> "none"]

NoBody == [kind |-> "none"]

Resp(endpoint, status, error, body) ==
    [endpoint |-> endpoint, status |-> status, error |-> error, body |-> body]

\* no response has been sent to the request being served
NoResponse == Resp("none", 0, NoError, NoBody)

\* the catch block of POST /api/generate
GenerateFailure(error) == Resp("generate", 500, error, NoBody)

\* the placeholder data URL of the image proxy
Placeholder == [contentType |-> <<"image", "png">>, data |-> "placeholder"]

----------------------------------------------------------------------------
(* State *)

NoCounts == [btl \in {} |-> 0]

\* no generateQuestions call is running: its variables do not exist
NoLocals ==
    /\ reqIdx = 0
    /\ count = 0
    /\ randomBTLs = <<>>
    /\ selectedQuestions = <<>>
    /\ unitCount = [u \in Units |-> 0]
    /\ btlCount = NoCounts
    /\ remainingQuestions = <<>>

Init ==
    /\ questionBank = Null
    /\ lastData = <<>>
    /\ superseded = FALSE
    /\ uploads = 0
    /\ pc = "idle"
    /\ request = [endpoint |-> "none"]
    /\ NoLocals
    /\ response = NoResponse

\* a handler sends its response and returns
Respond(r) ==
    /\ response' = r
    /\ pc' = "idle"
    /\ reqIdx' = 0
    /\ count' = 0
    /\ randomBTLs' = <<>>
    /\ selectedQuestions' = <<>>
    /\ unitCount' = [u \in Units |-> 0]
    /\ btlCount' = NoCounts
    /\ remainingQuestions' = <<>>

\* faulty variant: a request is taken up while a handler is in its loops
handlerMayStartAnytime(p) == TRUE

\* the upload and generate handlers contain no await: Node.js runs each of them
\* to its response before it takes up the next request
handlerMayStart(p) == p = "idle"

----------------------------------------------------------------------------
(* POST /api/upload *)

\* what the request and the file system let the handler do: no file in the
\* request; reading the workbook throws; the rows are read and fs.unlinkSync
\* returns or throws
UploadInputs ==
    {[hasFile |-> FALSE, readable |-> FALSE, data |-> <<>>, unlinkOk |-> FALSE],
     [hasFile |-> TRUE, readable |-> FALSE, data |-> <<>>, unlinkOk |-> FALSE]}
    \cup [hasFile : {TRUE}, readable : {TRUE}, data : Sheets, unlinkOk : BOOLEAN]

\* faulty variant: the new records are added to the bank
mergeBank(old, new) == IF old = Null THEN new ELSE old \o new

\* questionBank = processExcelData(jsonData): the value the assignment stores
replaceBank(old, new) == new

Upload(in) ==
    /\ handlerMayStart(pc)
    /\ uploads < MaxUploads
    /\ uploads' = uploads + 1
    /\ request' = [endpoint |-> "upload", hasFile |-> in.hasFile, readable |-> in.readable,
                    unlinkOk |-> in.unlinkOk]
    /\ IF ~in.hasFile
       THEN /\ Respond(Resp("upload", 400, [text |-> "No file uploaded"], NoBody))
            /\ UNCHANGED <<questionBank, lastData, superseded>>
       ELSE IF ~in.readable
       THEN \* XLSX.readFile or sheet_to_json throws
            /\ Respond(Resp("upload", 500, [text |-> "Error processing file"], NoBody))
            /\ UNCHANGED <<questionBank, lastData, superseded>>
       ELSE /\ questionBank' = replaceBank(questionBank, processExcelData(in.data))
            /\ lastData' = in.data
            /\ superseded' = /\ questionBank # Null
                              /\ \E q \in Range(questionBank) : q \notin Range(questionBank')
            /\ IF in.unlinkOk
               THEN Respond(Resp("upload", 200, NoError,
                                 [kind |-> "upload",
                                  message |-> "File processed successfully",
                                  questionCount |-> Len(questionBank')]))
               ELSE \* fs.unlinkSync throws after the bank was assigned
                    Respond(Resp("upload", 500, [text |-> "Error processing file"], NoBody))

----------------------------------------------------------------------------
(* GET /api/image-proxy-base64 *)

\* faulty variant: the content type is not looked at
IsImageTypeAny(contentType) == TRUE

\* contentType.startsWith('image/')
IsImageType(contentType) == contentType # <<>> /\ contentType[1] = "image"

ImageProxy(url, fetch) ==
    /\ handlerMayStart(pc)
    /\ request' = [endpoint |-> "image-proxy", url |-> url, fetch |-> fetch]
    /\ UNCHANGED bankVars
    /\ IF url = <<>>
       THEN Respond(Resp("image-proxy", 400, [text |-> "No URL provided"], NoBody))
       ELSE LET directUrl == getDirectImageURL(url)
                fallback == Resp("image-proxy", 200, NoError,
                                 [kind |-> "dataUrl", dataUrl |-> Placeholder,
                                  fetched |-> directUrl])
            IN IF ~fetch.ok
               THEN Respond(fallback)
               ELSE IF fetch.contentType = <<>>
               THEN \* startsWith of undefined throws a TypeError inside the try block
                    Respond(fallback)
               ELSE IF ~IsImageType(fetch.contentType)
               THEN Respond(Resp("image-proxy", 400,
                                 [text |-> "URL does not point to an image",
                                  contentType |-> fetch.contentType], NoBody))
               ELSE Respond(Resp("image-proxy", 200, NoError,
                                 [kind |-> "dataUrl",
                                  dataUrl |-> [contentType |-> fetch.contentType,
                                               data |-> "bytes"],
                                  fetched |-> directUrl]))

----------------------------------------------------------------------------
(* POST /api/generate.  The handler runs without interruption; it is split *)
(* into its start, one step per iteration of the quota loops, and its end. *)

\* faulty variant: the level is sent with the "L" prefix of the spreadsheet
ProjectionWithPrefix(selected) ==
    [i \in 1..Len(selected) |->
        [question |-> selected[i].question, imageUrl |-> selected[i].imageUrl,
         btLevel |-> <<"L">> \o selected[i].btLevel, unit |-> selected[i].unit]]

\* the projection of the selected questions in the response
Projection(selected) ==
    [i \in 1..Len(selected) |->
        [question |-> selected[i].question, imageUrl |-> selected[i].imageUrl,
         btLevel |-> selected[i].btLevel, unit |-> selected[i].unit]]

\* faulty variant: the handler does not test the bank
bankAbsentNever(bank) == FALSE

\* !questionBank in the handler
bankAbsent(bank) == bank = Null

\* the handler up to the call of selectQuestions
GenerateRequest(pt) ==
    /\ handlerMayStart(pc)
    /\ request' = [endpoint |-> "generate", paperType |-> pt]
    /\ UNCHANGED bankVars
    /\ IF bankAbsent(questionBank)
       THEN Respond(Resp("generate", 400,
                         [text |-> "No questions available. Please upload an Excel file first."],
                         NoBody))
       ELSE IF questionBank = Null \/ Len(questionBank) < 6
       THEN Respond(GenerateFailure(
                [text |-> "Insufficient questions in question bank. At least 6 questions are required."]))
       ELSE IF btLevels(questionBank) = <<>>
       THEN Respond(GenerateFailure([text |-> "No valid BTL levels found in question bank"]))
       ELSE IF btlRequirements(questionBank) = Undefined
       THEN Respond(GenerateFailure(
                [text |-> "Unsupported case", maxBTL |-> maxBTL(questionBank),
                 btls |-> availableBTLs(questionBank)]))
       ELSE IF unitRequirements(pt) = Undefined
       THEN Respond(GenerateFailure([text |-> "Invalid paper type"]))
       ELSE /\ pc' = "select"
            /\ reqIdx' = 1
            /\ count' = btlRequirements(questionBank)[1].count
            /\ randomBTLs' = <<>>
            /\ selectedQuestions' = <<>>
            /\ unitCount' = [u \in Units |-> 0]
            /\ btlCount' = NoCounts
            /\ remainingQuestions' = questionBank
            /\ response' = NoResponse

\* faulty variant: the picked question stays in the pool
removeQuestionKept(remaining, q) == remaining

\* remainingQuestions.filter(r => r.id !== q.id)
removeQuestion(remaining, q) == SelectSeq(remaining, LAMBDA r : r.id # q.id)

\* faulty variant: remainingQuestions is the bank itself and the question is removed in place
bankAliased(bank, remaining) == remaining

\* remainingQuestions is a copy of the bank, [...questionBank], and filter builds
\* a new array: the bank is not the array the question is removed from
bankAfterRemoval(bank, remaining) == bank

\* faulty variant: the loop body does not decrement the remaining count
countAfterPickKept(n) == n

\* count-- at the end of the loop body
countAfterPick(n) == n - 1

\* pickQuestion(btl) returns the question q, and the loop body that follows it
pickQuestion(btl, q) ==
    LET reqs == btlRequirements(questionBank)
        done == countAfterPick(count) <= 0
    IN /\ remainingQuestions' = removeQuestion(remainingQuestions, q)
       /\ questionBank' = bankAfterRemoval(questionBank, remainingQuestions')
       /\ unitCount' = [unitCount EXCEPT ![q.unit] = @ + 1]
       /\ btlCount' = [btl2 \in DOMAIN btlCount \cup {q.btLevel} |->
                          IF btl2 = q.btLevel THEN CountOf(btlCount, btl2) + 1
                          ELSE btlCount[btl2]]
       /\ selectedQuestions' = Append(selectedQuestions, q)
       /\ IF ~done
          THEN /\ count' = countAfterPick(count)
               /\ UNCHANGED <<reqIdx, pc>>
          ELSE IF reqIdx < Len(reqs)
          THEN /\ reqIdx' = reqIdx + 1
               /\ count' = reqs[reqIdx + 1].count
               /\ UNCHANGED pc
          ELSE /\ reqIdx' = reqIdx
               /\ count' = 0
               /\ pc' = "validate"
       /\ UNCHANGED <<lastData, superseded, uploads, request, response>>

\* one iteration of a while loop of selectQuestions, with the check before the
\* loop when the iteration is the first one of its quota item
SelectStep ==
    /\ pc = "select"
    /\ LET unitReqs == unitRequirements(request.paperType)
           req == btlRequirements(questionBank)[reqIdx]
           first == count = req.count
           fail(error) == /\ Respond(GenerateFailure(error))
                          /\ UNCHANGED <<bankVars, request>>
       IN IF req.level = RandomLevel
          THEN IF req.options = Undefined
               THEN fail([text |-> "TypeError"])
               ELSE LET feasible == IF first
                                    THEN feasibleRandomBTLs(req.options, questionBank,
                                                            unitReqs, btlCount)
                                    ELSE randomBTLs
                    IN IF feasible = <<>>
                       THEN fail([text |-> "No questions available for BTL [L1, L5, L6] in required units"])
                       ELSE \E i \in 1..Len(feasible) :
                              LET btl == feasible[i]
                                  av == available(btl, remainingQuestions, unitReqs, unitCount)
                              IN IF av = <<>>
                                 THEN fail([text |-> "Insufficient questions for BTL in required units",
                                            btl |-> btl])
                                 ELSE \E idx \in 1..Len(av) :
                                        /\ pickQuestion(btl, av[idx])
                                        /\ randomBTLs' = IF count = 1 THEN <<>> ELSE feasible
          ELSE LET found == availableCount(req.level, questionBank, unitReqs, btlCount)
                   av == available(req.level, remainingQuestions, unitReqs, unitCount)
               IN IF first /\ found < req.count
                  THEN fail([text |-> "Insufficient questions for BTL (need, found) in required units",
                             btl |-> req.level, need |-> req.count, found |-> found])
                  ELSE IF av = <<>>
                  THEN fail([text |-> "Failed to pick BTL despite availability",
                             btl |-> req.level])
                  ELSE \E idx \in 1..Len(av) :
                         /\ pickQuestion(req.level, av[idx])
                         /\ UNCHANGED randomBTLs

\* selectQuestions after the loops, and the handler after generateQuestions
Finish ==
    /\ pc = "validate"
    /\ UNCHANGED <<bankVars, request>>
    /\ LET unitReqs == unitRequirements(request.paperType)
           unmet == unmetUnits(unitReqs, unitCount)
       IN IF unmet # {}
          THEN LET r == unitReqs[CHOOSE i \in unmet : TRUE]
               IN Respond(GenerateFailure(
                      [text |-> "Unit has questions, needs at least",
                       unit |-> r.unit, has |-> unitCount[r.unit], needs |-> r.minCount]))
          ELSE IF Len(selectedQuestions) # 6
          THEN Respond(GenerateFailure(
                   [text |-> "Failed to select exactly 6 questions with required BTL and unit constraints"]))
          ELSE Respond(Resp("generate", 200, NoError,
                            [kind |-> "paper",
                             questions |-> Projection(selectedQuestions),
                             selected |-> selectedQuestions]))

----------------------------------------------------------------------------

Next ==
    \/ \E in \in UploadInputs : Upload(in)
    \/ \E pt \in PaperTypes : GenerateRequest(pt)
    \/ SelectStep
    \/ Finish
    \/ \E url \in Urls, fetch \in FetchOutcomes : ImageProxy(url, fetch)

Spec == Init /\ [][Next]_vars

----------------------------------------------------------------------------
(* Properties *)

\* the last request was a generate request answered with a paper
Succeeded == response.endpoint = "generate" /\ response.status = 200

\* a generate request has been answered and no other request since
GenerateAnswered == response.endpoint = "generate"

ValidPaperTypes == {"mid1", "mid2", "special"}

UnitTally(sel, unit) == Cardinality({i \in 1..Len(sel) : sel[i].unit = unit})

LevelTally(sel, levels) == Cardinality({i \in 1..Len(sel) : sel[i].btLevel \in levels})

Labels(bank) == {bank[i].btLevel : i \in 1..Len(bank)}

\* C1: a generate request that succeeds returns exactly 6 questions, with
\* pairwise distinct identifiers, all of them records of the current bank.
C1_SixDistinctFromBank ==
    Succeeded =>
        LET sel == response.body.selected
        IN /\ Len(sel) = 6
           /\ Len(response.body.questions) = 6
           /\ \A i, j \in 1..Len(sel) : i # j => sel[i].id # sel[j].id
           /\ \A i \in 1..Len(sel) : sel[i] \in Range(questionBank)

\* a paper was generated from a bank of more than 6 records
C1_Witness == Succeeded /\ Len(questionBank) > 6

\* C2: in a generated paper the number of questions per unit is within the
\* range of the paper type, units outside the paper type contribute none,
\* and the counts total 6.
C2_UnitCounts ==
    Succeeded =>
        LET sel == response.body.selected
            pt == request.paperType
            n(unit) == UnitTally(sel, unit)
        IN /\ n(1) + n(2) + n(3) + n(4) + n(5) = 6
           /\ pt \in ValidPaperTypes
           /\ pt = "mid1" => /\ n(1) \in 2..3 /\ n(2) \in 2..3 /\ n(3) = 1
                              /\ n(4) = 0 /\ n(5) = 0
           /\ pt = "mid2" => /\ n(4) \in 2..3 /\ n(5) \in 2..3 /\ n(3) = 1
                              /\ n(1) = 0 /\ n(2) = 0
           /\ pt = "special" => \A unit \in 1..5 : n(unit) \in 1..2

\* a mid2 paper with three questions of unit 4, from a bank that also has units 1 and 2
C2_Witness ==
    /\ Succeeded
    /\ request.paperType = "mid2"
    /\ UnitTally(response.body.selected, 4) = 3
    /\ \E i \in 1..Len(questionBank) : questionBank[i].unit \in {1, 2}

\* C3: in a generated paper the tallies per level equal the quotas of the
\* scheme: with maximum level 6, two of level "2", two of level "3", one of
\* level "4" and one of a level in {"1","5","6"}; with maximum level 4, two
\* each of levels "2", "3" and "4".
C3_LevelQuotas ==
    Succeeded =>
        LET sel == response.body.selected
            n(levels) == LevelTally(sel, levels)
        IN /\ maxBTL(questionBank) = 6 =>
                /\ n({<<"2">>}) = 2 /\ n({<<"3">>}) = 2 /\ n({<<"4">>}) = 1
                /\ n({<<"1">>, <<"5">>, <<"6">>}) = 1
           /\ maxBTL(questionBank) = 4 =>
                /\ n({<<"2">>}) = 2 /\ n({<<"3">>}) = 2 /\ n({<<"4">>}) = 2

\* a paper whose sixth question has level "5", from a bank of maximum level 6
C3_Witness ==
    /\ Succeeded
    /\ maxBTL(questionBank) = 6
    /\ response.body.selected[6].btLevel = <<"5">>

\* more than one level label, and a maximum level that is neither 6 nor 4
UnsupportedLevels(bank) ==
    /\ Cardinality(Labels(bank)) > 1
    /\ \E i \in 1..Len(bank) : ParseIntOr0(bank[i].btLevel) > 0
    /\ maxBTL(bank) \notin {4, 6}

NamesUnsupportedCase ==
    /\ response.status = 500
    /\ response.error.text = "Unsupported case"
    /\ response.error.maxBTL = maxBTL(questionBank)
    /\ Range(response.error.btls) = Labels(questionBank)

\* C4 as claimed: for every bank with an unsupported level distribution, every
\* generate request fails with the "Unsupported case" error naming the levels.
C4_Original ==
    (GenerateAnswered /\ questionBank # Null /\ UnsupportedLevels(questionBank))
        => NamesUnsupportedCase

\* C4: for every bank of at least 6 records with an unsupported level
\* distribution, every generate request, whatever its paper type, fails with
\* the "Unsupported case" error naming the maximum and the levels observed;
\* for a bank of fewer than 6 records it fails with the bank-size error.
C4_UnsupportedCase ==
    (GenerateAnswered /\ questionBank # Null /\ UnsupportedLevels(questionBank)) =>
        IF Len(questionBank) >= 6
        THEN NamesUnsupportedCase
        ELSE /\ response.status = 500
             /\ response.error.text =
                    "Insufficient questions in question bank. At least 6 questions are required."

\* the error was sent to a request with an invalid paper type
C4_Witness ==
    /\ GenerateAnswered
    /\ response.error.text = "Unsupported case"
    /\ request.paperType \notin ValidPaperTypes
    /\ Len(questionBank) >= 6

PlaceholderSent ==
    /\ response.status = 200
    /\ response.body.kind = "dataUrl"
    /\ response.body.dataUrl = Placeholder

ProxyAnswered == response.endpoint = "image-proxy" /\ request.url # <<>>

\* the fetch resolved with a content type that does not start with "image/"
NonImageFetched ==
    /\ request.fetch.ok
    /\ request.fetch.contentType # <<>>
    /\ request.fetch.contentType[1] # "image"

\* C5 as claimed: a proxy request with a url whose fetch fails or returns a
\* non-image content type is answered with status 200 and the placeholder.
C5_Original ==
    (ProxyAnswered /\ (~request.fetch.ok \/ NonImageFetched)) => PlaceholderSent

\* C5: a proxy request with a url whose fetch fails, or resolves without a
\* content type, is answered with status 200 and the placeholder; one whose
\* fetch resolves with a non-image content type is answered with status 400
\* and the error "URL does not point to an image".
C5_ProxyFallback ==
    ProxyAnswered =>
        /\ (~request.fetch.ok \/ (request.fetch.ok /\ request.fetch.contentType = <<>>))
               => PlaceholderSent
        /\ NonImageFetched =>
               /\ response.status = 400
               /\ response.error.text = "URL does not point to an image"
               /\ response.error.contentType = request.fetch.contentType

\* the placeholder was sent for a failed fetch of a rewritten share link
C5_Witness ==
    /\ ProxyAnswered
    /\ ~request.fetch.ok
    /\ PlaceholderSent
    /\ response.body.fetched # request.url

\* the bank passes every check of generateQuestions that precedes the paper type
BankFitForGeneration ==
    /\ questionBank # Null
    /\ Len(questionBank) >= 6
    /\ \E i \in 1..Len(questionBank) : ParseIntOr0(questionBank[i].btLevel) > 0
    /\ (maxBTL(questionBank) \in {4, 6} \/ Cardinality(Labels(questionBank)) = 1)

\* C6 as claimed: a generate request with an invalid paper type is answered
\* with a 4xx status and a message identifying the invalid paper type.
C6_Original ==
    (/\ GenerateAnswered
     /\ request.paperType \notin ValidPaperTypes
     /\ BankFitForGeneration)
        => /\ response.status \in 400..499
           /\ response.error.text = "Invalid paper type"

\* C7: after an upload replaced the bank, the bank is the normalisation of the
\* rows of that upload alone, and every question of a generated paper is a
\* record of it: none comes from the bank that was replaced.
C7_BankReplaced ==
    questionBank # Null =>
        /\ questionBank = processExcelData(lastData)
        /\ Succeeded =>
               \A i \in 1..Len(response.body.selected) :
                   response.body.selected[i] \in Range(processExcelData(lastData))

\* a paper generated after a second upload dropped records of the first
C7_Witness == Succeeded /\ superseded /\ uploads = 2

NoQuestionsAvailable ==
    "No questions available. Please upload an Excel file first."

\* C8: a generate request served while the bank is absent is answered with
\* status 400 and the "No questions available" error, for every paper type,
\* and leaves the bank absent.
C8_NoBank ==
    [][\A pt \in PaperTypes :
          (questionBank = Null /\ GenerateRequest(pt)) =>
              /\ response'.endpoint = "generate"
              /\ response'.status = 400
              /\ response'.error.text = NoQuestionsAvailable
              /\ questionBank' = Null
              /\ pc' = "idle"]_vars

\* the error was sent to a request with an invalid paper type
C8_Witness ==
    /\ GenerateAnswered
    /\ questionBank = Null
    /\ request.paperType \notin ValidPaperTypes
    /\ response.status = 400

\* a step of a generate request
GenerateStep == (\E pt \in PaperTypes : GenerateRequest(pt)) \/ SelectStep \/ Finish

\* C9: no step of a generate request, successful or failed, changes the bank.
C9_BankUnchanged == [][GenerateStep => questionBank' = questionBank]_vars

\* a generation failed after its six picks, and the bank is what was uploaded
C9_Witness ==
    /\ GenerateAnswered
    /\ response.error.text = "Unit has questions, needs at least"
    /\ questionBank = processExcelData(lastData)

\* C10: every record of a bank has a unit in 1..5 and a level label other
\* than "0", and the identifiers of the records are pairwise distinct.
C10_BankRecords ==
    questionBank # Null =>
        /\ \A i \in 1..Len(questionBank) :
               /\ questionBank[i].unit \in {1, 2, 3, 4, 5}
               /\ questionBank[i].btLevel # <<"0">>
        /\ \A i, j \in 1..Len(questionBank) :
               i # j => questionBank[i].id # questionBank[j].id

\* a second upload whose rows were not all kept
C10_Witness ==
    /\ questionBank # Null
    /\ uploads = 2
    /\ Len(questionBank) > 0
    /\ Len(questionBank) < Len(lastData)

\* C11: a paper generated from a bank with exactly one distinct level label
\* has 6 questions, and each of them is returned with that label.
C11_SingleLevel ==
    (Succeeded /\ Cardinality(Labels(questionBank)) = 1) =>
        /\ Len(response.body.questions) = 6
        /\ \A i \in 1..Len(response.body.questions) :
               /\ response.body.questions[i].btLevel \in Labels(questionBank)
               /\ response.body.selected[i].btLevel \in Labels(questionBank)

\* a paper generated from a bank whose only label is "5"
C11_Witness ==
    /\ Succeeded
    /\ Labels(questionBank) = {<<"5">>}
    /\ Len(questionBank) = 6

\* the participating units that are below their maximum and still have a
\* question of level btl in the pool
EligibleUnits(btl) ==
    LET unitReqs == unitRequirements(request.paperType)
    IN {unitReqs[i].unit : i \in {j \in 1..Len(unitReqs) :
            /\ unitCount[unitReqs[j].unit] < unitReqs[j].maxCount
            /\ \E r \in Range(remainingQuestions) :
                   r.unit = unitReqs[j].unit /\ r.btLevel = btl}}

\* count - minimum of a participating unit
BelowMinimum(unit) ==
    unitCount[unit] - FindReq(unitRequirements(request.paperType), unit).minCount

\* C12 as claimed: a pick never takes a question from a unit whose
\* (count - minimum) is larger than that of another unit that has an
\* eligible candidate of the level picked.
C12_Original ==
    [][(pc = "select" /\ Len(selectedQuestions') = Len(selectedQuestions) + 1) =>
          LET q == selectedQuestions'[Len(selectedQuestions')]
          IN \A unit \in EligibleUnits(q.btLevel) :
                 BelowMinimum(q.unit) <= BelowMinimum(unit)]_vars

\* C13 as claimed: a fixed-level quota whose check before the loop passed is
\* filled, so no generate request is answered with the error "Failed to pick
\* BTL ... despite availability".
C13_Original ==
    GenerateAnswered =>
        response.error.text # "Failed to pick BTL despite availability"

\* C14 as claimed: every record of the bank has a level label that parses to
\* a positive integer.
C14_Original ==
    questionBank # Null =>
        \A i \in 1..Len(questionBank) : ParseIntOr0(questionBank[i].btLevel) > 0

\* the six-element sets of bank records that satisfy the unit ranges of the
\* paper type and the level quotas of the resolved scheme
SatisfyingSets(bank, pt) ==
    LET unitReqs == unitRequirements(pt)
        reqs == btlRequirements(bank)
    IN {S \in SUBSET (1..Len(bank)) :
          /\ Cardinality(S) = 6
          /\ \A i \in S : \E j \in 1..Len(unitReqs) : unitReqs[j].unit = bank[i].unit
          /\ \A j \in 1..Len(unitReqs) :
                 LET n == Cardinality({i \in S : bank[i].unit = unitReqs[j].unit})
                 IN n >= unitReqs[j].minCount /\ n <= unitReqs[j].maxCount
          /\ \A k \in 1..Len(reqs) :
                 LET levels == IF reqs[k].level = RandomLevel
                               THEN Range(reqs[k].options) ELSE {reqs[k].level}
                 IN Cardinality({i \in S : bank[i].btLevel \in levels}) = reqs[k].count}

\* C15 as claimed: when the bank holds six questions that satisfy the unit
\* ranges and the level quotas, generation succeeds whatever the random picks.
C15_Original ==
    (/\ GenerateAnswered
     /\ response.status # 200
     /\ request.paperType \in ValidPaperTypes
     /\ questionBank # Null
     /\ Len(questionBank) >= 6
     /\ btLevels(questionBank) # <<>>
     /\ btlRequirements(questionBank) # Undefined)
        => SatisfyingSets(questionBank, request.paperType) = {}

\* an upload request is answered in this step, with an error status
UploadAnsweredWithError ==
    /\ uploads' = uploads + 1
    /\ response'.endpoint = "upload"
    /\ response'.status # 200

\* C16 as claimed: an upload request answered with an error status leaves the
\* question bank as it was before the request.
C16_Original ==
    [][UploadAnsweredWithError =>
          IF questionBank = Null THEN ~(questionBank' # Null)
          ELSE questionBank' # Null /\ questionBank' = questionBank]_uploads

\* C17: while a generate request is being served the bank is the complete
\* result of normalising one upload, the pool and the picks are exactly the
\* records of that bank, and no step of the request sees the bank change.
C17_OneBankGeneration ==
    [][pc # "idle" =>
          /\ questionBank = processExcelData(lastData)
          /\ Range(remainingQuestions) \cup Range(selectedQuestions) = Range(questionBank)
          /\ questionBank' = questionBank
          /\ lastData' = lastData
          /\ Range(remainingQuestions') \cup Range(selectedQuestions') \subseteq Range(questionBank)]_vars

\* a request is picking from the bank of the second upload, which replaced records
C17_Witness ==
    /\ pc = "select"
    /\ uploads = 2
    /\ superseded
    /\ Len(selectedQuestions) >= 2

RECURSIVE CountsFrom(_, _)
\* the sum of the counts of the quota items from position k on
CountsFrom(reqs, k) ==
    IF k > Len(reqs) THEN 0 ELSE reqs[k].count + CountsFrom(reqs, k + 1)

\* the picks a request in its quota loops has still to make
Outstanding ==
    IF pc = "select"
    THEN count + CountsFrom(btlRequirements(questionBank), reqIdx + 1)
    ELSE 0

\* C18: every iteration of the quota loops either ends the request with an
\* error or selects one question, the picks made and the picks outstanding
\* always add up to 6 (so each pick lowers the outstanding number by one and at
\* most 6 picks are made), and the request that leaves the loops has 6 picks
\* and is answered in its next step.
C18_BoundedPicks ==
    [][/\ pc = "select" =>
            /\ count >= 1
            /\ Len(selectedQuestions) + Outstanding = 6
            /\ \/ pc' = "idle" /\ response'.endpoint = "generate" /\ response'.status = 500
               \/ /\ pc' \in {"select", "validate"}
                  /\ Len(selectedQuestions') = Len(selectedQuestions) + 1
       /\ pc = "validate" =>
            /\ Len(selectedQuestions) = 6
            /\ pc' = "idle" /\ response'.endpoint = "generate"]_vars

\* the sixth pick of a request with four quota items has been made
C18_Witness ==
    /\ pc = "validate"
    /\ Len(selectedQuestions) = 6
    /\ reqIdx = 4

====
